---- MODULE Spec2Model ----
(***************************************************************************)
(* A model of the fondos.gob.cl scraper (src/fondos_scraper.py).           *)
(*                                                                         *)
(* Strings are sequences of one-character strings, so that the Python      *)
(* string operations the code uses (startswith, in, split, replace,        *)
(* strip, +) are computed character by character.  An optional value       *)
(* (the result of BeautifulSoup's find, which is an element or None) is a  *)
(* sequence of length 0 (None) or 1 (the element).                         *)
(***************************************************************************)
EXTENDS Integers, Sequences, FiniteSets

VARIABLES
    pc,          \* position of the run inside main / get_fondos
    cards,       \* get_fondos: the cards of the listing page, in document order
    i,           \* get_fondos: number of cards the for loop has taken
    fondo_info,  \* get_fondos: the record of the current card
    count,       \* get_fondos: the running count
    file,        \* the lines of fondos.csv
    exc,         \* the exception being propagated, "none" when there is none
    retval,      \* main: total_fondos, the value get_fondos returned
    inflight,    \* number of HTTP requests issued and not yet answered
    log,         \* history: the GETs, extractions, writes, sleeps and failures
                 \* of the run, in order
    card,        \* extract_fondo_info called alone: its argument
    result,      \* extract_fondo_info called alone: its outcome
    xpc,         \* extract_fondo_info called alone: "call", then "done"
    file0        \* history: fondos.csv as it was before the run

vars == <<pc, cards, i, fondo_info, count, file, exc, retval, inflight, log,
          card, result, xpc, file0>>

driverVars ==
    <<pc, cards, i, fondo_info, count, file, exc, retval, inflight, log, file0>>

----------------------------------------------------------------------------
(* Bounds of the model.                                                    *)

MaxCards == 3

MaxParagraphs == 4

MaxDatePieces == 5

MaxHrefPieces == 3

----------------------------------------------------------------------------
(* Optional values and Python's string operations.                         *)

None == <<>>

Some(x) == <<x>>

IsNone(o) == Len(o) = 0

Get(o) == o[1]

Whitespace == {" ", "\t", "\n"}

RECURSIVE LStrip(_)
LStrip(s) ==
    IF Len(s) > 0 /\ Head(s) \in Whitespace THEN LStrip(Tail(s)) ELSE s

RECURSIVE RStrip(_)
RStrip(s) ==
    IF Len(s) > 0 /\ s[Len(s)] \in Whitespace
    THEN RStrip(SubSeq(s, 1, Len(s) - 1))
    ELSE s

\* str.strip()
Strip(s) == RStrip(LStrip(s))

\* str.startswith(p)
StartsWith(s, p) == Len(s) >= Len(p) /\ SubSeq(s, 1, Len(p)) = p

\* p in s
Contains(s, p) ==
    \E k \in 0..(Len(s) - Len(p)) : SubSeq(s, k + 1, k + Len(p)) = p

RECURSIVE ReplaceEmpty(_, _)
ReplaceEmpty(s, new) ==
    IF Len(s) = 0 THEN new ELSE new \o <<Head(s)>> \o ReplaceEmpty(Tail(s), new)

\* str.replace(old, new): every non-overlapping occurrence, left to right
RECURSIVE Replace(_, _, _)
Replace(s, old, new) ==
    IF Len(old) = 0 THEN ReplaceEmpty(s, new)
    ELSE IF Len(s) < Len(old) THEN s
    ELSE IF SubSeq(s, 1, Len(old)) = old
         THEN new \o Replace(SubSeq(s, Len(old) + 1, Len(s)), old, new)
         ELSE <<Head(s)>> \o Replace(Tail(s), old, new)

\* str.split(sep) for a one-character separator: always at least one part
RECURSIVE Split(_, _)
Split(s, sep) ==
    IF \E k \in 1..Len(s) : s[k] = sep
    THEN LET k == CHOOSE k \in 1..Len(s) :
                      s[k] = sep /\ \A j \in 1..(k - 1) : s[j] # sep
         IN  <<SubSeq(s, 1, k - 1)>> \o Split(SubSeq(s, k + 1, Len(s)), sep)
    ELSE <<s>>

\* element.text.strip() if element else ''
TextOf(element) == IF IsNone(element) THEN <<>> ELSE Strip(Get(element))

----------------------------------------------------------------------------
(* The literals of the code.                                               *)

BaseOrigin ==
    <<"h","t","t","p","s",":","/","/","f","o","n","d","o","s",".","g","o","b",".","c","l">>

ListingUrl == BaseOrigin \o <<"/","s","e","a","r","c","h","e","r","n","e","w","/">>

HttpPrefix == <<"h","t","t","p">>

InicioMarker == <<"I","n","i","c","i","o",":">>

FinMarker == <<"F","i","n",":">>

\* 'Categoría:' ("i'" stands for the accented letter)
CategoriaMarker == <<"C","a","t","e","g","o","r","i'","a",":">>

----------------------------------------------------------------------------
(* extract_fondo_info.  A card is a record of what the lookups find:       *)
(*   a          card.find('a'): None or an anchor [href: None or a string] *)
(*   badge      card.find('span', class_='badge')                          *)
(*   text_white card.find('span', class_='text-white')                     *)
(*   text_dark  card.find('span', class_='text-dark')                      *)
(*   small      card.find('small', class_='text-uppercase')                *)
(*   h6         card.find('h6')                                            *)
(*   card_body  card.find('div', class_='card-body'): None or the texts of *)
(*              its paragraphs, card_body.find_all('p')                    *)
(* An outcome is [exc, value]: exc is the exception raised ("none" when    *)
(* the call returns) and value what is returned, Some(dict).               *)

\* if not url.startswith('http'): url = 'https://fondos.gob.cl' + url
NormalizeUrl_AlwaysPrefix(url) == BaseOrigin \o url

NormalizeUrl(url) ==
    IF ~StartsWith(url, HttpPrefix) THEN BaseOrigin \o url ELSE url

\* url_element['href'] if url_element else '' : a missing attribute is a KeyError
UrlOf(c) ==
    IF IsNone(c.a) THEN [exc |-> "none", url |-> NormalizeUrl(<<>>)]
    ELSE IF IsNone(Get(c.a).href) THEN [exc |-> "KeyError", url |-> <<>>]
    ELSE [exc |-> "none", url |-> NormalizeUrl(Get(Get(c.a).href))]

\* card.find('span', class_='text-white') or card.find('span', class_='text-dark')
AlcanceElement(c) == IF ~IsNone(c.text_white) THEN c.text_white ELSE c.text_dark

\* alcance.replace('', '').strip()
AlcanceOf(c) == Strip(Replace(TextOf(AlcanceElement(c)), <<>>, <<>>))

\* paragraphs[k].text.strip() if len(paragraphs) > k else ''   (k counted from 0)
ParagraphText(paragraphs, k) ==
    IF Len(paragraphs) > k THEN Strip(paragraphs[k + 1]) ELSE <<>>

\* lines 198-203: fechas_split[1] on a one-element list is an IndexError
FechasOf(fechas) ==
    IF Contains(fechas, InicioMarker) /\ Contains(fechas, FinMarker)
    THEN LET fechas_split == Split(fechas, "|")
         IN  IF Len(fechas_split) < 2
             THEN [exc |-> "IndexError", inicio |-> <<>>, fin |-> <<>>]
             ELSE [exc |-> "none",
                   inicio |-> Strip(Replace(fechas_split[1], InicioMarker, <<>>)),
                   fin |-> Strip(Replace(fechas_split[2], FinMarker, <<>>))]
    ELSE [exc |-> "none", inicio |-> <<>>, fin |-> <<>>]

\* lines 192-210
BodyOf(c) ==
    IF ~IsNone(c.card_body)
    THEN LET paragraphs == Get(c.card_body)
             f == FechasOf(ParagraphText(paragraphs, 1))
         IN  [exc |-> f.exc,
              beneficiario |-> ParagraphText(paragraphs, 0),
              inicio |-> f.inicio,
              fin |-> f.fin,
              monto |-> ParagraphText(paragraphs, 2)]
    ELSE [exc |-> "none", beneficiario |-> <<>>, inicio |-> <<>>, fin |-> <<>>,
          monto |-> <<>>]

\* The only handler is "except ValueError: raise": whatever is raised leaves
\* the function.
extract_fondo_info(c, now) ==
    LET u == UrlOf(c)
        b == BodyOf(c)
    IN  IF u.exc # "none" THEN [exc |-> u.exc, value |-> None]
        ELSE IF b.exc # "none" THEN [exc |-> b.exc, value |-> None]
        ELSE [exc |-> "none",
              value |-> Some(
                        [URL |-> u.url,
                         ESTADO |-> TextOf(c.badge),
                         ALCANCE |-> AlcanceOf(c),
                         INSTITUCION |-> TextOf(c.small),
                         NOMBRE |-> TextOf(c.h6),
                         BENEFICIARIO |-> b.beneficiario,
                         INICIO |-> b.inicio,
                         FIN |-> b.fin,
                         MONTO |-> b.monto,
                         FECHA_EXTRACCION |-> now])]

----------------------------------------------------------------------------
(* The inputs of the model: texts, hrefs and cards.                        *)

\* datetime.now().strftime(...): the clock's reading, an opaque value
Timestamps == {"t1", "t2"}

RECURSIVE Concats(_, _)
\* every concatenation of at most n pieces of P
Concats(P, n) ==
    IF n = 0 THEN {<<>>}
    ELSE LET prev == Concats(P, n - 1)
         IN  prev \cup {s \o p : s \in prev, p \in P}

DateA == <<"2","0","2","3","-","0","1","-","0","1">>

DateB == <<"2","0","2","3","-","0","6","-","3","0">>

DateValues == {<<"A">>, <<"B">>, DateA, DateB}

\* 'Inicio: <a> | Fin: <b>'
DatesShape(a, b) ==
    InicioMarker \o <<" ">> \o a \o <<" ","|"," ">> \o FinMarker \o <<" ">> \o b

Tbd == <<"T","B","D">>

DatePieces == {InicioMarker, FinMarker, <<"|">>, <<" ","A"," ">>, <<" ","B">>}

DateTexts ==
    Concats(DatePieces, MaxDatePieces)
        \cup {DatesShape(a, b) : a \in DateValues, b \in DateValues}
        \cup {Tbd}

RelHref == <<"/","c","o","n","c","u","r","s","o","/","1","2","3">>

AbsHref == <<"h","t","t","p","s",":","/","/","o","t","h","e","r",".","s","i","t","e","/","x">>

HrefPieces == {HttpPrefix, <<"s">>, <<":","/","/">>, <<"/","x">>, <<"f","t","p">>}

Hrefs == Concats(HrefPieces, MaxHrefPieces) \cup {RelHref, AbsHref}

EstadoText == <<" ","A","b","i","e","r","t","o"," ">>

WhiteText == <<"N","a","c","i","o","n","a","l"," ">>

DarkText == <<" ","R","e","g","i","o","n","a","l">>

SmallText == <<"C","O","R","F","O">>

TitleText == <<"F","o","n","d","o"," ","1">>

\* the k-th paragraph of a complete card body
ParagraphAt(k) ==
    CASE k = 1 -> <<" ","P","y","m","e","s">>
      [] k = 2 -> DatesShape(DateA, DateB)
      [] k = 3 -> <<"$","1","0","0"," ">>
      [] OTHER -> <<"m","a","s">>

Paragraphs(n) == [k \in 1..n |-> ParagraphAt(k)]

Anchor(href) == Some([href |-> href])

\* a card with every element present
FullCard(a, fechas) ==
    [a |-> a, badge |-> Some(EstadoText), text_white |-> Some(WhiteText),
     text_dark |-> Some(DarkText), small |-> Some(SmallText),
     h6 |-> Some(TitleText),
     card_body |-> Some([Paragraphs(3) EXCEPT ![2] = fechas])]

\* every subset of the elements absent; paragraphs are absent from the end
AbsenceCards ==
    {[a |-> a, badge |-> b, text_white |-> w, text_dark |-> d, small |-> s,
      h6 |-> h, card_body |-> cb] :
        a \in {None, Anchor(Some(RelHref))},
        b \in {None, Some(EstadoText)},
        w \in {None, Some(WhiteText)},
        d \in {None, Some(DarkText)},
        s \in {None, Some(SmallText)},
        h \in {None, Some(TitleText)},
        cb \in {None} \cup {Some(Paragraphs(n)) : n \in 0..MaxParagraphs}}

DateCards == {FullCard(Anchor(Some(RelHref)), t) : t \in DateTexts}

HrefCards ==
    {FullCard(Anchor(Some(h)), DatesShape(DateA, DateB)) : h \in Hrefs}
        \cup {FullCard(Anchor(None), DatesShape(DateA, DateB))}

ExtractCards == AbsenceCards \cup DateCards \cup HrefCards

----------------------------------------------------------------------------
(* extract_fondo_info called alone on one card.                            *)

NoOutcome == [exc |-> "none", value |-> None]

DriverIdle ==
    /\ pc = "off"
    /\ cards = <<>>
    /\ i = 0
    /\ fondo_info = None
    /\ count = 0
    /\ file = <<>>
    /\ exc = "none"
    /\ retval = -1
    /\ inflight = 0
    /\ log = <<>>
    /\ file0 = <<>>

InitExtract ==
    /\ card \in ExtractCards
    /\ result = NoOutcome
    /\ xpc = "call"
    /\ DriverIdle

ExtractCall ==
    /\ xpc = "call"
    /\ \E now \in Timestamps : result' = extract_fondo_info(card, now)
    /\ xpc' = "done"
    /\ UNCHANGED <<card, driverVars>>

NextExtract == ExtractCall

SpecExtract == InitExtract /\ [][NextExtract]_vars

----------------------------------------------------------------------------
(* get_detail_info.  A detail page is a record of what the lookups find:   *)
(*   descripcion_div  soup.find('div', class_='mb-4 d-block'): None or     *)
(*                    [p: its first paragraph or None]                     *)
(*   me3              soup.find_all('div', class_='me-3'): each            *)
(*                    [small: None or text, span: None or text]            *)
(*   pills04          soup.find('div', id='pills-04'): None or its         *)
(*                    anchors, each [href: None or a string]               *)

\* lines 107-111
DescripcionOf(page) ==
    IF ~IsNone(page.descripcion_div) /\ ~IsNone(Get(page.descripcion_div).p)
    THEN Strip(Get(Get(page.descripcion_div).p))
    ELSE <<>>

\* lines 114-121: the loop stops at the first div whose label holds the marker
RECURSIVE CategoriaOf(_)
CategoriaOf(divs) ==
    IF Len(divs) = 0 THEN <<>>
    ELSE LET div == Head(divs)
         IN  IF ~IsNone(div.small) /\ Contains(Get(div.small), CategoriaMarker)
             THEN IF ~IsNone(div.span) THEN Strip(Get(div.span)) ELSE <<>>
             ELSE CategoriaOf(Tail(divs))

\* lines 124-128: enlaces[0].get('href', '')
WebBasesOf(page) ==
    IF ~IsNone(page.pills04) /\ Len(Get(page.pills04)) > 0
    THEN LET enlace == Get(page.pills04)[1]
         IN  IF IsNone(enlace.href) THEN <<>> ELSE Get(enlace.href)
    ELSE <<>>

get_detail_info(page) ==
    [DESCRIPCION |-> DescripcionOf(page),
     CATEGORIA |-> CategoriaOf(page.me3),
     WEB |-> WebBasesOf(page)]

\* dict.update: the keys of u are added to d, or overwrite d's
UpdateDict(d, u) ==
    [k \in DOMAIN d \cup DOMAIN u |-> IF k \in DOMAIN u THEN u[k] ELSE d[k]]

----------------------------------------------------------------------------
(* save_fondo_to_csv.  fondos.csv is a sequence of lines: the header, a    *)
(* data row [ID, fondo], or what a write that failed half way left.        *)

\* the columns of the frame: ID, then the keys of the dict in insertion order
Columns ==
    <<"ID", "URL", "ESTADO", "ALCANCE", "INSTITUCION", "NOMBRE", "BENEFICIARIO",
      "INICIO", "FIN", "MONTO", "FECHA_EXTRACCION", "DESCRIPCION", "CATEGORIA",
      "WEB">>

HeaderLine == [kind |-> "header", columns |-> Columns]

RowLine(index, fondo) == [kind |-> "row", ID |-> index, fondo |-> fondo]

TornLine == [kind |-> "torn"]

save_fondo_to_csv_AlwaysHeader(f, fondo, index, file_exists) ==
    (IF file_exists THEN f ELSE <<>>) \o <<HeaderLine, RowLine(index, fondo)>>

save_fondo_to_csv_AlwaysTruncate(f, fondo, index, file_exists) ==
    <<HeaderLine, RowLine(index, fondo)>>

save_fondo_to_csv_ZeroBased(f, fondo, index, file_exists) ==
    (IF file_exists THEN f ELSE <<HeaderLine>>) \o <<RowLine(index - 1, fondo)>>

\* mode 'w' empties the file and writes the header; mode 'a' adds to it
save_fondo_to_csv(f, fondo, index, file_exists) ==
    LET mode == IF file_exists THEN "a" ELSE "w"
        header == ~file_exists
    IN  (IF mode = "a" THEN f ELSE <<>>)
            \o (IF header THEN <<HeaderLine>> ELSE <<>>)
            \o <<RowLine(index, fondo)>>

\* What an IOError can leave: the file as it was (the open failed), or, once
\* opened, a file emptied by mode 'w' or holding part of what was to be written.
SaveFailOutcomes(f, file_exists) ==
    {f} \cup (IF file_exists
              THEN {f \o <<TornLine>>}
              ELSE {<<>>, <<HeaderLine>>, <<HeaderLine, TornLine>>})

----------------------------------------------------------------------------
(* The inputs of a run: the listing page, the detail pages, the file.      *)

NoHrefCard == FullCard(Anchor(None), DatesShape(DateA, DateB))

NoPipeCard == FullCard(Anchor(Some(RelHref)), InicioMarker \o <<" ","A"," ">> \o FinMarker)

NoBodyCard ==
    [FullCard(Anchor(Some(AbsHref)), Tbd) EXCEPT !.card_body = None]

DriverCards ==
    {FullCard(Anchor(Some(RelHref)), DatesShape(DateA, DateB)),
     NoBodyCard, NoHrefCard, NoPipeCard}

RECURSIVE SeqsUpTo(_, _)
\* the sequences over S of length at most n
SeqsUpTo(S, n) ==
    IF n = 0 THEN {<<>>}
    ELSE LET prev == SeqsUpTo(S, n - 1)
         IN  prev \cup {Append(q, x) : q \in prev, x \in S}

\* soup.find_all('div', class_='col-md-6 col-lg-3')
Listings == SeqsUpTo(DriverCards, MaxCards)

CategoriaLabel == CategoriaMarker \o <<" ">>

PageFull ==
    [descripcion_div |-> Some([p |-> Some(<<" ","A","p","o","y","o"," ">>)]),
     me3 |-> <<[small |-> Some(<<"T","i","p","o",":">>), span |-> Some(<<"X">>)],
               [small |-> Some(CategoriaLabel), span |-> Some(<<"P","y","m","e"," ">>)],
               [small |-> Some(CategoriaLabel), span |-> Some(<<"Y">>)]>>,
     pills04 |-> Some(<<[href |-> Some(<<"/","b","a","s","e","s",".","p","d","f">>)],
                        [href |-> Some(<<"/","z">>)]>>)]

PageBare ==
    [descripcion_div |-> Some([p |-> None]),
     me3 |-> <<[small |-> Some(CategoriaLabel), span |-> None],
               [small |-> Some(CategoriaLabel), span |-> Some(<<"Y">>)]>>,
     pills04 |-> None]

DetailPages == {PageFull, PageBare}

OldFondo ==
    [URL |-> AbsHref, ESTADO |-> <<>>, ALCANCE |-> <<>>, INSTITUCION |-> <<>>,
     NOMBRE |-> <<"o","l","d">>, BENEFICIARIO |-> <<>>, INICIO |-> <<>>,
     FIN |-> <<>>, MONTO |-> <<>>, FECHA_EXTRACCION |-> "t0",
     DESCRIPCION |-> <<>>, CATEGORIA |-> <<>>, WEB |-> <<>>]

\* fondos.csv before the run: absent or empty, or what an earlier run left
InitialFiles ==
    {<<>>,
     <<HeaderLine, RowLine(1, OldFondo), RowLine(2, OldFondo), RowLine(3, OldFondo)>>,
     <<HeaderLine, RowLine(1, OldFondo), TornLine>>}

----------------------------------------------------------------------------
(* main and get_fondos.                                                    *)

Event(op, idx, url, id, row) ==
    [op |-> op, card |-> idx, url |-> url, id |-> id, row |-> row]

ExtractIdle ==
    /\ card = None
    /\ result = NoOutcome
    /\ xpc = "off"

Init ==
    /\ pc = "start"
    /\ cards = <<>>
    /\ i = 0
    /\ fondo_info = None
    /\ count = 0
    /\ file \in InitialFiles
    /\ file0 = file
    /\ exc = "none"
    /\ retval = -1
    /\ inflight = 0
    /\ log = <<>>
    /\ ExtractIdle

\* main calls get_fondos, line 287: requests.get(url, headers=headers)
RequestListing ==
    /\ pc = "start"
    /\ inflight' = inflight + 1
    /\ log' = Append(log, Event("GET", 0, ListingUrl, 0, None))
    /\ pc' = "listing_wait"
    /\ UNCHANGED <<cards, i, fondo_info, count, file, exc, retval, card, result, xpc, file0>>

\* lines 288-294: the response is a success; cards = soup.find_all(...); count = 0
ListingOk ==
    /\ pc = "listing_wait"
    /\ \E cs \in Listings : cards' = cs
    /\ count' = 0
    /\ i' = 0
    /\ inflight' = inflight - 1
    /\ pc' = "loop"
    /\ UNCHANGED <<fondo_info, file, exc, retval, log, card, result, xpc, file0>>

\* lines 287-288: the GET fails, or raise_for_status raises on the status
ListingFail ==
    /\ pc = "listing_wait"
    /\ inflight' = inflight - 1
    /\ exc' = "RequestException"
    /\ log' = Append(log, Event("RAISE", 0, ListingUrl, 0, None))
    /\ pc' = "raised"
    /\ UNCHANGED <<cards, i, fondo_info, count, file, retval, card, result, xpc, file0>>

\* lines 295-297: the loop takes the next card, extracts it, tests the result
ForNext ==
    /\ pc = "loop"
    /\ i < Len(cards)
    /\ i' = i + 1
    /\ \E now \in Timestamps :
         LET r == extract_fondo_info(cards[i + 1], now)
         IN  IF r.exc # "none"
             THEN /\ exc' = r.exc
                  /\ log' = Append(log, Event("RAISE", i + 1, <<>>, 0, None))
                  /\ pc' = "raised"
                  /\ UNCHANGED fondo_info
             ELSE /\ fondo_info' = r.value
                  /\ log' = Append(log, Event("EXTRACT", i + 1, <<>>, 0, r.value))
                  /\ pc' = IF ~IsNone(r.value) THEN "detail" ELSE "loop"
                  /\ UNCHANGED exc
    /\ UNCHANGED <<cards, count, file, retval, inflight, card, result, xpc, file0>>

\* line 299, get_detail_info line 97: requests.get(url, headers=headers)
RequestDetail ==
    /\ pc = "detail"
    /\ inflight' = inflight + 1
    /\ log' = Append(log, Event("GET", i, Get(fondo_info).URL, 0, None))
    /\ pc' = "detail_wait"
    /\ UNCHANGED <<cards, i, fondo_info, count, file, exc, retval, card, result, xpc, file0>>

DetailOk_NoIncrement ==
    /\ pc = "detail_wait"
    /\ \E page \in DetailPages :
         fondo_info' = Some(UpdateDict(Get(fondo_info), get_detail_info(page)))
    /\ inflight' = inflight - 1
    /\ pc' = "save"
    /\ UNCHANGED <<cards, i, count, file, exc, retval, log, card, result, xpc, file0>>

\* lines 98-134 and 300-303: the page is parsed, its fields merged; count += 1
DetailOk ==
    /\ pc = "detail_wait"
    /\ \E page \in DetailPages :
         fondo_info' = Some(UpdateDict(Get(fondo_info), get_detail_info(page)))
    /\ count' = count + 1
    /\ inflight' = inflight - 1
    /\ pc' = "save"
    /\ UNCHANGED <<cards, i, file, exc, retval, log, card, result, xpc, file0>>

\* lines 97-98 and 136-138: the GET fails; the handler prints and re-raises
DetailFail ==
    /\ pc = "detail_wait"
    /\ inflight' = inflight - 1
    /\ exc' = "RequestException"
    /\ log' = Append(log, Event("RAISE", i, Get(fondo_info).URL, 0, None))
    /\ pc' = "raised"
    /\ UNCHANGED <<cards, i, fondo_info, count, file, retval, card, result, xpc, file0>>

SaveOk_NoSleep ==
    /\ pc = "save"
    /\ file' = save_fondo_to_csv(file, Get(fondo_info), count, count > 1)
    /\ log' = Append(log, Event("WRITE", i, Get(fondo_info).URL, count, fondo_info))
    /\ pc' = "loop"
    /\ UNCHANGED <<cards, i, fondo_info, count, exc, retval, inflight, card, result, xpc, file0>>

\* line 304: save_fondo_to_csv(fondo_info, count, count > 1) returns
SaveOk ==
    /\ pc = "save"
    /\ file' = save_fondo_to_csv(file, Get(fondo_info), count, count > 1)
    /\ log' = Append(log, Event("WRITE", i, Get(fondo_info).URL, count, fondo_info))
    /\ pc' = "sleep"
    /\ UNCHANGED <<cards, i, fondo_info, count, exc, retval, inflight, card, result, xpc, file0>>

\* lines 255 and 258-260: the write fails; the handler prints and re-raises
SaveFail ==
    /\ pc = "save"
    /\ \E f \in SaveFailOutcomes(file, count > 1) : file' = f
    /\ exc' = "IOError"
    /\ log' = Append(log, Event("RAISE", i, <<>>, count, None))
    /\ pc' = "raised"
    /\ UNCHANGED <<cards, i, fondo_info, count, retval, inflight, card, result, xpc, file0>>

\* line 306: time.sleep(random.uniform(1, 3))
Sleep ==
    /\ pc = "sleep"
    /\ log' = Append(log, Event("SLEEP", i, <<>>, 0, None))
    /\ pc' = "loop"
    /\ UNCHANGED <<cards, i, fondo_info, count, file, exc, retval, inflight, card, result, xpc, file0>>

\* line 308: return count
ForEnd ==
    /\ pc = "loop"
    /\ i = Len(cards)
    /\ retval' = count
    /\ pc' = "returned"
    /\ UNCHANGED <<cards, i, fondo_info, count, file, exc, inflight, log, card, result, xpc, file0>>

GetFondosExcept_Swallow ==
    /\ pc = "raised"
    /\ exc' = "none"
    /\ pc' = "loop"
    /\ UNCHANGED <<cards, i, fondo_info, count, file, retval, inflight, log, card, result, xpc, file0>>

\* lines 310-315: RequestException and ValueError are printed and re-raised;
\* any other exception is not handled here and leaves get_fondos as it is
GetFondosExcept ==
    /\ pc = "raised"
    /\ pc' = "main_except"
    /\ UNCHANGED <<cards, i, fondo_info, count, file, exc, retval, inflight, log, card, result, xpc, file0>>

\* lines 327-328: main prints the total
MainOk ==
    /\ pc = "returned"
    /\ pc' = "exit_ok"
    /\ UNCHANGED <<cards, i, fondo_info, count, file, exc, retval, inflight, log, card, result, xpc, file0>>

\* lines 329-331: main prints the error and re-raises it; the process fails
MainExcept ==
    /\ pc = "main_except"
    /\ pc' = "exit_err"
    /\ UNCHANGED <<cards, i, fondo_info, count, file, exc, retval, inflight, log, card, result, xpc, file0>>

Next ==
    \/ RequestListing
    \/ ListingOk
    \/ ListingFail
    \/ ForNext
    \/ RequestDetail
    \/ DetailOk
    \/ DetailFail
    \/ SaveOk
    \/ SaveFail
    \/ Sleep
    \/ ForEnd
    \/ GetFondosExcept
    \/ MainOk
    \/ MainExcept

Spec == Init /\ [][Next]_vars

----------------------------------------------------------------------------
(* Properties of extract_fondo_info, stated for SpecExtract.              *)

ListingKeys ==
    {"URL", "ESTADO", "ALCANCE", "INSTITUCION", "NOMBRE", "BENEFICIARIO",
     "INICIO", "FIN", "MONTO", "FECHA_EXTRACCION"}

DetailKeys == {"DESCRIPCION", "CATEGORIA", "WEB"}

\* number of paragraphs the card's body holds; 0 when there is no body
NumParagraphs(c) == IF IsNone(c.card_body) THEN 0 ELSE Len(Get(c.card_body))

\* what is left of the card's dates paragraph, '' when there is none
FechasText(c) ==
    IF NumParagraphs(c) >= 2 THEN Strip(Get(c.card_body)[2]) ELSE <<>>

HasHref(c) == ~IsNone(c.a) /\ ~IsNone(Get(c.a).href)

NormalizedRelHref ==
    <<"h","t","t","p","s",":","/","/","f","o","n","d","o","s",".","g","o","b",".","c","l",
      "/","c","o","n","c","u","r","s","o","/","1","2","3">>

\* C5: for every subset of a card's elements that is absent, extraction does
\* not raise, the record has every key, and each field whose element is absent
\* (url, status, scope, institution, title, beneficiary, start, end, amount) is
\* the empty string; without a card body the four body fields are all empty.
C5_AbsentElementsEmpty ==
    (xpc = "done" /\ card \in AbsenceCards) =>
        /\ result.exc = "none"
        /\ ~IsNone(result.value)
        /\ LET v == Get(result.value)
           IN  /\ DOMAIN v = ListingKeys
               /\ IsNone(card.a) => v.URL = <<>>
               /\ IsNone(card.badge) => v.ESTADO = <<>>
               /\ (IsNone(card.text_white) /\ IsNone(card.text_dark)) => v.ALCANCE = <<>>
               /\ IsNone(card.small) => v.INSTITUCION = <<>>
               /\ IsNone(card.h6) => v.NOMBRE = <<>>
               /\ NumParagraphs(card) < 1 => v.BENEFICIARIO = <<>>
               /\ NumParagraphs(card) < 2 => (v.INICIO = <<>> /\ v.FIN = <<>>)
               /\ NumParagraphs(card) < 3 => v.MONTO = <<>>

\* C6: for every text of the dates paragraph extraction completes without
\* failing; 'Inicio: A | Fin: B' gives start A and end B, and a text that lacks
\* one of the markers 'Inicio:' and 'Fin:' gives an empty start and end.
C6_DatesNeverFail ==
    (xpc = "done" /\ card \in DateCards) =>
        /\ result.exc = "none"
        /\ LET v == Get(result.value)
               fechas == FechasText(card)
           IN  /\ \A a \in DateValues, b \in DateValues :
                     fechas = DatesShape(a, b) => (v.INICIO = a /\ v.FIN = b)
               /\ ~(Contains(fechas, InicioMarker) /\ Contains(fechas, FinMarker))
                     => (v.INICIO = <<>> /\ v.FIN = <<>>)

\* C7: an href that starts with http (so also https) is the record's URL
\* unchanged, any other href is prefixed with 'https://fondos.gob.cl';
\* '/concurso/123' gives 'https://fondos.gob.cl/concurso/123',
\* 'https://other.site/x' is unchanged, and normalizing the URL again changes
\* nothing.
C7_UrlNormalization ==
    (xpc = "done" /\ HasHref(card) /\ result.exc = "none") =>
        LET href == Get(Get(card.a).href)
            url == Get(result.value).URL
        IN  /\ StartsWith(href, <<"h","t","t","p">>) => url = href
            /\ ~StartsWith(href, <<"h","t","t","p">>) => url = BaseOrigin \o href
            /\ href = RelHref => url = NormalizedRelHref
            /\ href = AbsHref => url = AbsHref
            /\ NormalizeUrl(url) = url

C7_Witness ==
    /\ xpc = "done"
    /\ HasHref(card)
    /\ Get(Get(card.a).href) = RelHref
    /\ result.exc = "none"
    /\ Get(result.value).URL = NormalizedRelHref

----------------------------------------------------------------------------
(* Properties of a run of main, stated for Spec.                           *)

IsWrite(e) == e.op = "WRITE"

IsRaise(e) == e.op = "RAISE"

IsExtract(e) == e.op = "EXTRACT"

IsDetailGet(e) == e.op = "GET" /\ e.card > 0

IsListingGet(e) == e.op = "GET" /\ e.card = 0

IsRow(line) == line.kind = "row"

\* the writes that succeeded in this run, in order
Writes == SelectSeq(log, IsWrite)

\* the data rows of a file, in order
DataRows(f) == SelectSeq(f, IsRow)

\* the positions of the log that hold a detail GET
DetailGetPositions == {j \in 1..Len(log) : IsDetailGet(log[j])}

Aborting == pc \in {"raised", "main_except", "exit_err"}

\* the file without the partial line a failed write may have left at its end
WithoutTornTail(f) ==
    IF exc = "IOError" /\ Len(f) > 0 /\ f[Len(f)].kind = "torn"
    THEN SubSeq(f, 1, Len(f) - 1)
    ELSE f

\* C1: the IDs of the rows written in one run are 1, 2, ..., k without gap
\* or repeat, and the rows are in the document order of the cards they came
\* from, in every state of the run, also after an abort.
C1_SequentialIds ==
    LET w == Writes
        rows == DataRows(file)
    IN  /\ \A j \in 1..Len(w) : w[j].id = j
        /\ \A j \in 1..Len(w), k \in 1..Len(w) : j < k => w[j].card < w[k].card
        /\ Len(w) >= 1 =>
             /\ Len(rows) = Len(w)
             /\ \A j \in 1..Len(w) :
                  /\ rows[j].ID = j
                  /\ rows[j].fondo = Get(w[j].row)
                  /\ \E k \in 1..Len(log) :
                       /\ IsExtract(log[k])
                       /\ log[k].card = w[j].card
                       /\ Get(log[k].row).URL = rows[j].fondo.URL

C1_Witness ==
    /\ pc = "exit_err"
    /\ Len(Writes) = 2
    /\ Len(file0) > 0
    /\ DataRows(file)[1].ID = 1
    /\ DataRows(file)[2].ID = 2

\* C2: a failed network call or file write is not suppressed: the run leaves
\* get_fondos and main with the error, nothing is retried, no GET is issued
\* and no row written after the failure, and the rows written before it are
\* still in the file unchanged.
C2_StrictTier ==
    /\ \A j \in 1..Len(log) :
         IsRaise(log[j]) =>
            /\ j = Len(log)
            /\ Aborting
            /\ exc # "none"
            /\ inflight = 0
            /\ retval = -1
            /\ Len(DataRows(file)) >= Len(Writes)
            /\ \A k \in 1..Len(Writes) :
                 DataRows(file)[k] = RowLine(k, Get(Writes[k].row))
    /\ Aborting => (Len(log) > 0 /\ IsRaise(log[Len(log)]))
    /\ pc = "exit_ok" => exc = "none"

C2_Witness ==
    /\ pc = "exit_err"
    /\ exc = "RequestException"
    /\ Len(Writes) = 2
    /\ IsRaise(log[Len(log)])
    /\ log[Len(log)].card = 3

\* C3: a card whose extraction fails internally (an anchor without href, a
\* dates text on which the split fails) never aborts the batch: the driver
\* skips it without a detail fetch, a row or an id, and goes on.
C3_MalformedCardSkipped ==
    /\ exc \notin {"KeyError", "IndexError"}
    /\ \A j \in 1..i :
         extract_fondo_info(cards[j], "t1").exc # "none" =>
            /\ ~Aborting \/ log[Len(log)].card # j
            /\ \A k \in 1..Len(log) :
                 (log[k].op \in {"GET", "WRITE"}) => log[k].card # j

\* C4: whatever fondos.csv held before the run, once k >= 1 records are
\* written it is one header row followed by exactly k data rows: the first
\* append writes the header and one row, each later one adds one row only.
C4_OneHeader ==
    Len(Writes) >= 1 =>
        LET f == WithoutTornTail(file)
        IN  /\ Len(f) = Len(Writes) + 1
            /\ f[1] = HeaderLine
            /\ \A j \in 2..Len(f) : f[j].kind = "row"

C4_Witness ==
    /\ Len(file0) > 0
    /\ Len(Writes) = 2
    /\ file = <<HeaderLine, RowLine(1, Get(Writes[1].row)), RowLine(2, Get(Writes[2].row))>>

\* C8: at every loop boundary of get_fondos and at its return, count is the
\* number of rows written in this run; the value returned is that total; a
\* listing without cards returns 0 with no detail fetch and no write.
C8_CountIsRowsWritten ==
    /\ pc \in {"loop", "returned", "exit_ok"} =>
         /\ count = Len(Writes)
         /\ count >= 1 => count = Len(DataRows(file))
    /\ pc \in {"returned", "exit_ok"} =>
         /\ retval = Len(Writes)
         /\ Len(cards) = 0 =>
              /\ retval = 0
              /\ DetailGetPositions = {}
              /\ file = file0

C8_Witness ==
    /\ pc = "exit_ok"
    /\ retval = 2
    /\ Len(DataRows(file)) = 2

\* C9: the run is sequential: the listing GET happens once and first, cards
\* are taken in document order, between two successive detail GETs lie the
\* earlier card's write and the delay after it, and at most one request is
\* in flight.
C9_Sequential ==
    /\ inflight \in {0, 1}
    /\ inflight = 1 <=> pc \in {"listing_wait", "detail_wait"}
    /\ \A j \in 1..Len(log) : IsListingGet(log[j]) <=> j = 1
    /\ \A j \in DetailGetPositions, k \in DetailGetPositions :
         j < k =>
            /\ log[j].card < log[k].card
            /\ \E m \in (j + 1)..(k - 1), n \in (j + 1)..(k - 1) :
                 /\ m < n
                 /\ IsWrite(log[m])
                 /\ log[m].card = log[j].card
                 /\ log[n].op = "SLEEP"
                 /\ log[n].card = log[j].card

C9_Witness ==
    /\ Cardinality(DetailGetPositions) = 2
    /\ pc = "detail_wait"
    /\ inflight = 1

\* C10: a record is written at most once and only after enrichment: one
\* detail GET to the record's own URL comes before its single write, the row
\* has the listing fields as extracted plus the three detail fields, and a
\* row once written is never changed.
C10_WriteOnceAfterEnrich ==
    /\ \A c \in 1..Len(cards) :
         Cardinality({j \in DetailGetPositions : log[j].card = c}) <= 1
    /\ \A k \in 1..Len(log) :
         IsWrite(log[k]) =>
            LET c == log[k].card
                row == Get(log[k].row)
            IN  /\ \E j \in 1..(k - 1) :
                     IsDetailGet(log[j]) /\ log[j].card = c /\ log[j].url = row.URL
                /\ \A m \in 1..Len(log) : (IsWrite(log[m]) /\ log[m].card = c) => m = k
                /\ DOMAIN row = ListingKeys \cup DetailKeys
                /\ \E j \in 1..(k - 1) :
                     /\ IsExtract(log[j])
                     /\ log[j].card = c
                     /\ \A key \in ListingKeys : row[key] = Get(log[j].row)[key]
                /\ \E page \in DetailPages :
                     \A key \in DetailKeys : row[key] = get_detail_info(page)[key]
    /\ \A j \in 1..Len(Writes) :
         /\ Len(DataRows(file)) >= j
         /\ DataRows(file)[j] = RowLine(j, Get(Writes[j].row))

C10_Witness ==
    /\ pc = "exit_ok"
    /\ Len(Writes) = 3
    /\ Get(Writes[1].row).DESCRIPCION # Get(Writes[3].row).DESCRIPCION

====
